---- MODULE Spec2Model ----
(***************************************************************************)
(* csv-to-allure, testcase-migration package: the migration orchestrator   *)
(* (src/main.py), the row source (src/core/reader.py) and the resilient    *)
(* submitter (src/core/client.py) as one state machine.                    *)
(*                                                                         *)
(* The program runs on one asyncio event loop: the orchestrator coroutine  *)
(* runs without interruption between two awaits, and the submission tasks  *)
(* take steps only while the orchestrator is suspended at an await.        *)
(***************************************************************************)
EXTENDS Integers, Sequences, FiniteSets, TLC

\* ------------------------------------------------------------------ bounds
MaxRows == 3
MaxBatch == 2
MaxRetriesBound == 3

\* ------------------------------------------------------- program constants
DefaultMaxRetries == 3
PauseSeconds == 1

VARIABLES
    pc,              \* position of main() / process_migration()
    path_kind,       \* what csv_file names: "file", "dir" or "missing"
    file,            \* the data rows of the CSV file, in file order
    has_token,       \* --api-token or ALLURE_API_TOKEN is given
    dry_run,         \* --dry-run
    batch_size,      \* --batch-size
    max_retries,     \* AllureClient.max_retries
    pos,             \* data rows of the file consumed by reader.read()
    i,               \* enumerate(reader.read(), 1): index of the row in hand
    cur,             \* the row in hand
    total_rows,      \* reader.count_rows()
    migrated_count,
    failed_count,
    tasks,           \* the list `tasks`: one record per asyncio task
    summary,         \* the summary that was logged, or NoSummary
    success,         \* the value process_migration returned
    exit_code,       \* the argument of sys.exit, -1 while running
    requests,        \* POST requests handed to the network so far
    created,         \* asyncio.create_task calls so far
    transformed,     \* transformer.transform calls so far
    returned_true,   \* migrate_test_case calls that returned True so far
    returned_false,  \* migrate_test_case calls that returned False so far
    log,             \* observer of one migrate_test_case call (SpecClient)
    out              \* what the reader or the transformer under unit check
                     \* has produced (SpecReader, SpecTransform)

vars == << pc, path_kind, file, has_token, dry_run, batch_size, max_retries,
           pos, i, cur, total_rows, migrated_count, failed_count, tasks,
           summary, success, exit_code, requests, created, transformed,
           returned_true, returned_false, log, out >>

inputs == << path_kind, file, has_token, dry_run, batch_size, max_retries >>

\* ------------------------------------------------------------ the CSV rows
\* A row is the list of its column values plus whether transforming it raises
\* an unexpected internal error.
EmptyRow == [vals |-> << "", "" >>, bad |-> FALSE]
DataRow == [vals |-> << "TC-01", "Test Login" >>, bad |-> FALSE]
BadRow == [vals |-> << "TC-02", "Broken" >>, bad |-> TRUE]
Rows == {EmptyRow, DataRow, BadRow}
NoRow == [vals |-> << >>, bad |-> FALSE]

RECURSIVE SeqsUpTo(_, _)
SeqsUpTo(S, n) ==
    IF n = 0 THEN {<< >>}
    ELSE LET shorter == SeqsUpTo(S, n - 1)
         IN  shorter \cup {Append(s, x) : s \in {t \in shorter : Len(t) = n - 1}, x \in S}

\* any(row.values()): some column value is a non-empty string
AnyValue(row) == \E k \in 1..Len(row.vals) : row.vals[k] # ""

\* sum(1 for row in reader if any(row.values()))
RECURSIVE CountNonEmpty(_)
CountNonEmpty(f) ==
    IF f = << >> THEN 0
    ELSE (IF AnyValue(Head(f)) THEN 1 ELSE 0) + CountNonEmpty(Tail(f))

count_rows(f, scan_ok) == IF scan_ok THEN CountNonEmpty(f) ELSE 0

\* The index of the next row reader.read() yields after `p` rows were consumed,
\* 0 at end of file.
RECURSIVE NextYield(_, _)
NextYield(f, p) ==
    IF p >= Len(f) THEN 0
    ELSE IF AnyValue(f[p + 1]) THEN p + 1
    ELSE NextYield(f, p + 1)

\* --------------------------------------------------- AllureClient: one call
Statuses == {200, 201, 204, 429, 500}

\* What one session.post attempt can end in.  The body matters for 200/201
\* only: "object" parses to a JSON object; "wrong_type" makes response.json()
\* raise aiohttp.ContentTypeError, an aiohttp.ClientError; "not_object" makes
\* response.json() or result.get raise an error that is neither a timeout nor a
\* ClientError (invalid JSON, or JSON that is no object).
Resp(s, b) == [kind |-> "response", status |-> s, body |-> b]
Timeout == [kind |-> "timeout", status |-> 0, body |-> "none"]
ClientError == [kind |-> "client_error", status |-> 0, body |-> "none"]
Outcomes ==
    {Resp(s, b) : s \in {200, 201}, b \in {"object", "wrong_type", "not_object"}}
    \cup {Resp(s, "text") : s \in Statuses \ {200, 201}}
    \cup {Timeout, ClientError}
NoOutcome == [kind |-> "none", status |-> 0, body |-> "none"]

\* A task: pc is "new" (created, not run yet), "await" (request sent),
\* "backoff" / "pause" (in asyncio.sleep), or settled: "true", "false",
\* "raised", "cancelled".  A settled task keeps its result only.
NewTask == [pc |-> "new", attempt |-> 0, wait |-> 0]
Settled(tk) == tk.pc \in {"true", "false", "raised", "cancelled"}
Pending(tk) == ~Settled(tk)
Result(p) == [pc |-> p, attempt |-> 0, wait |-> 0]

RECURSIVE Pow2(_)
Pow2(n) == IF n = 0 THEN 1 ELSE 2 * Pow2(n - 1)

\* A backoff that grows by one time unit per attempt instead of doubling.
BackoffLinear(attempt) == attempt + 1

\* wait_time = 2 ** attempt
BackoffWait(attempt) == Pow2(attempt)

\* A retry loop that runs one attempt too many.
EnterAttemptOffByOne(a, maxr) ==
    IF a <= maxr THEN [pc |-> "await", attempt |-> a, wait |-> 0]
    ELSE [pc |-> "false", attempt |-> 0, wait |-> 0]

\* for attempt in range(max_retries): the request of the given attempt is sent,
\* or the loop is over and the call returns False.
EnterAttempt(a, maxr) ==
    IF a < maxr THEN [pc |-> "await", attempt |-> a, wait |-> 0]
    ELSE Result("false")

\* response.status == 200 or response.status == 201
IsSuccessStatus(s) == s = 200 \/ s = 201

\* A transient error that backs off like a rate limit.
AfterTransientBackoff(tk, maxr) ==
    IF tk.attempt < maxr - 1
    THEN [tk EXCEPT !.pc = "pause", !.wait = Pow2(tk.attempt)]
    ELSE [pc |-> "false", attempt |-> 0, wait |-> 0]

\* After except asyncio.TimeoutError / except aiohttp.ClientError:
\* if attempt < max_retries - 1: sleep(1); otherwise the loop ends.
AfterTransient(tk, maxr) ==
    IF tk.attempt < maxr - 1
    THEN [tk EXCEPT !.pc = "pause", !.wait = PauseSeconds]
    ELSE EnterAttempt(tk.attempt + 1, maxr)

\* elif response.status == 429: sleep(2 ** attempt); continue
OnRateLimit(tk) == [tk EXCEPT !.pc = "backoff", !.wait = BackoffWait(tk.attempt)]

\* A rejection that is retried after the short pause.
OnOtherStatusRetry(tk) == [tk EXCEPT !.pc = "pause", !.wait = PauseSeconds]

\* else: text = await response.text(); return False
OnOtherStatus(tk) == Result("false")

\* result = await response.json(); result.get(...); return True
OnSuccessStatus(tk, body, maxr) ==
    CASE body = "object" -> Result("true")
      [] body = "wrong_type" -> AfterTransient(tk, maxr)
      [] OTHER -> Result("raised")

\* The body of the try statement and its except clauses, for one attempt.
HandleOutcome(tk, o, maxr) ==
    IF o.kind = "response"
    THEN IF IsSuccessStatus(o.status) THEN OnSuccessStatus(tk, o.body, maxr)
         ELSE IF o.status = 429 THEN OnRateLimit(tk)
         ELSE OnOtherStatus(tk)
    ELSE AfterTransient(tk, maxr)

\* asyncio.sleep is over: the for loop goes to its next attempt.
AfterSleep(tk, maxr) == EnterAttempt(tk.attempt + 1, maxr)

Sends(new) == IF new.pc = "await" THEN 1 ELSE 0
One(b) == IF b THEN 1 ELSE 0

\* The tasks run only while the orchestrator is suspended: in asyncio.gather,
\* or in the session's __aexit__ when an error leaves the async with block.
Suspended == pc \in {"gather", "drain", "closing"}

Step(k, new) ==
    /\ tasks' = [tasks EXCEPT ![k] = new]
    /\ requests' = requests + Sends(new)
    /\ returned_true' = returned_true + One(new.pc = "true")
    /\ returned_false' = returned_false + One(new.pc = "false")
    /\ UNCHANGED << inputs, pc, pos, i, cur, total_rows, migrated_count,
                    failed_count, summary, success, exit_code, created, transformed,
                    out >>

\* First step of a task: migrate_test_case runs up to its first request.
TaskStart(k) ==
    /\ Suspended
    /\ tasks[k].pc = "new"
    /\ Step(k, EnterAttempt(0, max_retries))

\* The request of task k ends with outcome o.
TaskRespond(k, o) ==
    /\ Suspended
    /\ tasks[k].pc = "await"
    /\ Step(k, HandleOutcome(tasks[k], o, max_retries))

\* The sleep of task k is over.
TaskWake(k) ==
    /\ Suspended
    /\ tasks[k].pc \in {"backoff", "pause"}
    /\ Step(k, AfterSleep(tasks[k], max_retries))

\* ---------------------------------------------------------- the orchestrator
NoSummary == [total |-> -1, migrated |-> -1, failed |-> -1, rate |-> -1]

Init ==
    /\ pc = "main"
    /\ path_kind \in {"file", "dir", "missing"}
    /\ file \in SeqsUpTo(Rows, MaxRows)
    /\ has_token \in BOOLEAN
    /\ dry_run \in BOOLEAN
    /\ batch_size \in 1..MaxBatch
    /\ max_retries = DefaultMaxRetries
    /\ pos = 0
    /\ i = 0
    /\ cur = NoRow
    /\ total_rows = 0
    /\ migrated_count = 0
    /\ failed_count = 0
    /\ tasks = << >>
    /\ summary = NoSummary
    /\ success = FALSE
    /\ exit_code = -1
    /\ requests = 0
    /\ created = 0
    /\ transformed = 0
    /\ returned_true = 0
    /\ returned_false = 0
    /\ log = << >>
    /\ out = << >>

Orch == UNCHANGED << inputs, requests, returned_true, returned_false, log, out >>

\* main(): the token check, then asyncio.run(process_migration(...)).
TokenMissing == ~has_token /\ ~dry_run

MainEntry ==
    /\ pc = "main"
    /\ IF TokenMissing
       THEN pc' = "exited" /\ exit_code' = 1
       ELSE pc' = "validate" /\ exit_code' = exit_code
    /\ Orch
    /\ UNCHANGED << pos, i, cur, total_rows, migrated_count, failed_count,
                    tasks, summary, success, created, transformed >>

\* A validation that checks existence only.
ValidateRaisesMissingOnly(kind) == kind = "missing"

\* CsvReader.validate: raises unless the path exists and is a file.
ValidateRaises(kind) == kind = "missing" \/ kind # "file"

\* reader.validate(); an error goes to the outer except: return False.
Validate ==
    /\ pc = "validate"
    /\ IF ValidateRaises(path_kind)
       THEN pc' = "returned" /\ success' = FALSE
       ELSE pc' = "count" /\ success' = success
    /\ Orch
    /\ UNCHANGED << pos, i, cur, total_rows, migrated_count, failed_count,
                    tasks, summary, exit_code, created, transformed >>

\* total_rows = reader.count_rows(); the counters are set and the session opens.
CountRows ==
    /\ pc = "count"
    /\ \E scan_ok \in BOOLEAN : total_rows' = count_rows(file, scan_ok)
    /\ migrated_count' = 0
    /\ failed_count' = 0
    /\ tasks' = << >>
    /\ pc' = "read"
    /\ Orch
    /\ UNCHANGED << pos, i, cur, summary, success, exit_code, created, transformed >>

\* The for statement asks reader.read() for its next row.
ReadRow ==
    /\ pc = "read"
    /\ LET n == NextYield(file, pos)
       IN  IF n = 0
           THEN /\ pos' = Len(file)
                /\ pc' = IF tasks # << >> THEN "drain" ELSE "summary"
                /\ UNCHANGED << i, cur >>
           ELSE /\ pos' = n
                /\ i' = i + 1
                /\ cur' = file[n]
                /\ pc' = "row"
    /\ Orch
    /\ UNCHANGED << total_rows, migrated_count, failed_count, tasks, summary,
                    success, exit_code, created, transformed >>

\* A reader that swallows the error: the rows read so far look like the file.
ReadFailsTruncates ==
    /\ pc = "read"
    /\ pc' = IF tasks # << >> THEN "drain" ELSE "summary"
    /\ UNCHANGED << inputs, requests, returned_true, returned_false, log, out >>
    /\ UNCHANGED << pos, i, cur, total_rows, migrated_count, failed_count,
                    tasks, summary, success, exit_code, created, transformed >>

\* The file becomes unreadable: reader.read() re-raises, out of the for loop.
ReadFails ==
    /\ pc = "read"
    /\ pc' = "closing"
    /\ Orch
    /\ UNCHANGED << pos, i, cur, total_rows, migrated_count, failed_count,
                    tasks, summary, success, exit_code, created, transformed >>

\* len(tasks) >= batch_size
BatchFull(n, b) == n >= b

\* A transform error that leaves the loop instead of being caught at the row.
RowFailsAborts ==
    /\ pc' = "closing"
    /\ UNCHANGED << migrated_count, failed_count, tasks, created >>

\* transformer.transform(row) raises: except Exception counts the row as failed.
RowFails ==
    /\ failed_count' = failed_count + 1
    /\ pc' = "read"
    /\ UNCHANGED << migrated_count, tasks, created >>

\* A preview branch without its `continue`: the row is counted and submitted.
RowPreviewedSubmits ==
    /\ migrated_count' = migrated_count + 1
    /\ tasks' = Append(tasks, [pc |-> "new", attempt |-> 0, wait |-> 0])
    /\ created' = created + 1
    /\ pc' = IF Len(tasks') >= batch_size THEN "gather" ELSE "read"
    /\ UNCHANGED failed_count

\* if dry_run: migrated_count += 1; continue
RowPreviewed ==
    /\ migrated_count' = migrated_count + 1
    /\ pc' = "read"
    /\ UNCHANGED << failed_count, tasks, created >>

\* create_task, tasks.append(task), then the batch check.
RowSubmitted ==
    /\ tasks' = Append(tasks, NewTask)
    /\ created' = created + 1
    /\ pc' = IF BatchFull(Len(tasks'), batch_size) THEN "gather" ELSE "read"
    /\ UNCHANGED << migrated_count, failed_count >>

\* The body of the for loop for the row in hand, up to its await or its end.
ProcessRow ==
    /\ pc = "row"
    /\ transformed' = transformed + 1
    /\ IF cur.bad THEN RowFails
       ELSE IF dry_run THEN RowPreviewed
       ELSE RowSubmitted
    /\ Orch
    /\ UNCHANGED << pos, i, cur, total_rows, summary, success, exit_code >>

\* A count that stops at the first match.
CountResultAtMostOne(ts, r) == IF \E k \in 1..Len(ts) : ts[k].pc = r THEN 1 ELSE 0

\* results.count(True), results.count(False)
CountResult(ts, r) == Cardinality({k \in 1..Len(ts) : ts[k].pc = r})

AllReturned(ts) == \A k \in 1..Len(ts) : ts[k].pc \in {"true", "false"}
SomeRaised(ts) == \E k \in 1..Len(ts) : ts[k].pc = "raised"

\* The event loop runs its callbacks in the order they were scheduled: the
\* first step of a task created before the await runs before gather's
\* callbacks wake the orchestrator.
AllStarted(ts) == \A k \in 1..Len(ts) : ts[k].pc # "new"

\* results = await asyncio.gather(*tasks), every task returned.
GatherDone ==
    /\ pc = "gather"
    /\ AllReturned(tasks)
    /\ migrated_count' = migrated_count + CountResult(tasks, "true")
    /\ failed_count' = failed_count + CountResult(tasks, "false")
    /\ tasks' = << >>
    /\ pc' = "read"
    /\ Orch
    /\ UNCHANGED << pos, i, cur, total_rows, summary, success, exit_code, created, transformed >>

\* asyncio.gather re-raises a task's error at once; except Exception at the
\* row counts one failure and leaves `tasks` as it is.
GatherRaises ==
    /\ pc = "gather"
    /\ SomeRaised(tasks)
    /\ AllStarted(tasks)
    /\ failed_count' = failed_count + 1
    /\ pc' = "read"
    /\ Orch
    /\ UNCHANGED << pos, i, cur, total_rows, migrated_count, tasks, summary,
                    success, exit_code, created, transformed >>

\* if tasks: results = await asyncio.gather(*tasks), after the loop.
DrainDone ==
    /\ pc = "drain"
    /\ AllReturned(tasks)
    /\ migrated_count' = migrated_count + CountResult(tasks, "true")
    /\ failed_count' = failed_count + CountResult(tasks, "false")
    /\ pc' = "summary"
    /\ Orch
    /\ UNCHANGED << pos, i, cur, total_rows, tasks, summary, success,
                    exit_code, created, transformed >>

\* The gather after the loop is outside the per-row try.
DrainRaises ==
    /\ pc = "drain"
    /\ SomeRaised(tasks)
    /\ AllStarted(tasks)
    /\ pc' = "closing"
    /\ Orch
    /\ UNCHANGED << pos, i, cur, total_rows, migrated_count, failed_count,
                    tasks, summary, success, exit_code, created, transformed >>

\* The session is closed and the outer except returns False.
FatalReturn ==
    /\ pc = "closing"
    /\ pc' = "returned"
    /\ success' = FALSE
    /\ Orch
    /\ UNCHANGED << pos, i, cur, total_rows, migrated_count, failed_count,
                    tasks, summary, exit_code, created, transformed >>

\* (migrated_count / total_processed * 100) if total_processed > 0 else 0,
\* in tenths of a percent.
\* A rate that reads an empty run as a full success.
SuccessRateEmptyIsFull(migrated, total) ==
    IF total > 0 THEN (migrated * 1000) \div total ELSE 1000

SuccessRate(migrated, total) ==
    IF total > 0 THEN (migrated * 1000) \div total ELSE 0

\* A summary whose status ignores failed_count.
SummarizeAlwaysSucceeds ==
    /\ pc = "summary"
    /\ summary' = [total |-> migrated_count + failed_count,
                   migrated |-> migrated_count, failed |-> failed_count,
                   rate |-> 0]
    /\ success' = TRUE
    /\ pc' = "returned"
    /\ UNCHANGED << inputs, requests, returned_true, returned_false, log, out >>
    /\ UNCHANGED << pos, i, cur, total_rows, migrated_count, failed_count,
                    tasks, exit_code, created, transformed >>

Summarize ==
    /\ pc = "summary"
    /\ LET total == migrated_count + failed_count
       IN  summary' = [total |-> total, migrated |-> migrated_count,
                       failed |-> failed_count,
                       rate |-> SuccessRate(migrated_count, total)]
    /\ success' = (failed_count = 0)
    /\ pc' = "returned"
    /\ Orch
    /\ UNCHANGED << pos, i, cur, total_rows, migrated_count, failed_count,
                    tasks, exit_code, created, transformed >>

\* asyncio.run cancels the tasks still pending; sys.exit(0 if success else 1).
Cancel(tk) == IF Pending(tk) THEN Result("cancelled") ELSE tk

MainExit ==
    /\ pc = "returned"
    /\ tasks' = [k \in 1..Len(tasks) |-> Cancel(tasks[k])]
    /\ exit_code' = IF success THEN 0 ELSE 1
    /\ pc' = "exited"
    /\ Orch
    /\ UNCHANGED << pos, i, cur, total_rows, migrated_count, failed_count,
                    summary, success, created, transformed >>

\* The event loop runs one step of one task.
StartTask == \E k \in 1..Len(tasks) : TaskStart(k) /\ log' = log
RespondTask == \E k \in 1..Len(tasks), o \in Outcomes : TaskRespond(k, o) /\ log' = log
WakeTask == \E k \in 1..Len(tasks) : TaskWake(k) /\ log' = log

Next ==
    \/ MainEntry
    \/ Validate
    \/ CountRows
    \/ ReadRow
    \/ ReadFails
    \/ ProcessRow
    \/ GatherDone
    \/ GatherRaises
    \/ DrainDone
    \/ DrainRaises
    \/ FatalReturn
    \/ Summarize
    \/ MainExit
    \/ StartTask
    \/ RespondTask
    \/ WakeTask

Spec == Init /\ [][Next]_vars

\* ------------------------------------------- one call of migrate_test_case
\* The run is at the gather after the loop with one task just created (a file
\* of one row, batch size 2), for every retry budget; `log` records each step
\* of that task: the task before it, the outcome it received, the task after.
Entry(act, before, o, after) ==
    [act |-> act, before |-> before, o |-> o, after |-> after]

InitClient ==
    /\ pc = "drain"
    /\ path_kind = "file"
    /\ file = << DataRow >>
    /\ has_token = TRUE
    /\ dry_run = FALSE
    /\ batch_size = 2
    /\ max_retries \in 1..MaxRetriesBound
    /\ pos = 1
    /\ i = 1
    /\ cur = DataRow
    /\ total_rows = 1
    /\ migrated_count = 0
    /\ failed_count = 0
    /\ tasks = << NewTask >>
    /\ summary = NoSummary
    /\ success = FALSE
    /\ exit_code = -1
    /\ requests = 0
    /\ created = 1
    /\ transformed = 1
    /\ returned_true = 0
    /\ returned_false = 0
    /\ log = << >>
    /\ out = << >>

ClientStart ==
    /\ TaskStart(1)
    /\ log' = Append(log, Entry("start", tasks[1], NoOutcome, tasks'[1]))

ClientRespond ==
    \E o \in Outcomes :
        /\ TaskRespond(1, o)
        /\ log' = Append(log, Entry("respond", tasks[1], o, tasks'[1]))

ClientWake ==
    /\ TaskWake(1)
    /\ log' = Append(log, Entry("wake", tasks[1], NoOutcome, tasks'[1]))

NextClient ==
    \/ ClientStart
    \/ ClientRespond
    \/ ClientWake

SpecClient == InitClient /\ [][NextClient]_vars


\* ======================================================================
\* Properties of one migrate_test_case call, checked under SpecClient.
Steps == 1..Len(log)
Awaiting(k) == [pc |-> "await", attempt |-> k, wait |-> 0]
IsResponse(j) == log[j].act = "respond" /\ log[j].o.kind = "response"
Is429(j) == IsResponse(j) /\ log[j].o.status = 429
Is2xx(j) == IsResponse(j) /\ log[j].o.status \in {200, 201}
IsRejection(j) == IsResponse(j) /\ log[j].o.status \notin {200, 201, 429}
IsTransient(j) == log[j].act = "respond" /\ log[j].o.kind \in {"timeout", "client_error"}
Responses == SelectSeq(log, LAMBDA e : e.act = "respond")
Received == [j \in 1..Len(Responses) |-> Responses[j].o]
Backoffs == SelectSeq(log, LAMBDA e : e.act = "respond" /\ e.after.pc = "backoff")
BackoffWaits == [j \in 1..Len(Backoffs) |-> Backoffs[j].after.wait]
Server429_429_201 == << Resp(429, "text"), Resp(429, "text"), Resp(201, "object") >>

\* C3: a 429 on attempt k puts the call to sleep for 2^k time units; the step
\* after the sleep uses up attempt k and sends the request of attempt k+1 when
\* the budget has one left (and returns False when it has none).  A server
\* answering 429, 429, 201 gives one True after three requests, with waits 1, 2.
RateLimitBackoff ==
    /\ \A j \in Steps :
         Is429(j) =>
           LET k == log[j].before.attempt
           IN  /\ log[j].after = [pc |-> "backoff", attempt |-> k, wait |-> 2^k]
               /\ j = Len(log) => tasks[1] = log[j].after
               /\ j < Len(log) =>
                    /\ log[j + 1].act = "wake"
                    /\ log[j + 1].after =
                         IF k + 1 < max_retries THEN Awaiting(k + 1) ELSE Result("false")
    /\ Received = Server429_429_201 =>
         /\ tasks[1] = Result("true")
         /\ requests = 3
         /\ returned_true = 1 /\ returned_false = 0
         /\ BackoffWaits = << 1, 2 >>

RateLimitBackoffWitness ==
    /\ Received = Server429_429_201
    /\ tasks[1].pc = "true"
    /\ BackoffWaits[2] = 2 * BackoffWaits[1]

TransientRetried ==
    \A j \in Steps :
        IsTransient(j) =>
            LET k == log[j].before.attempt
            IN  IF k < max_retries - 1
                THEN /\ log[j].after = [pc |-> "pause", attempt |-> k, wait |-> PauseSeconds]
                     /\ j = Len(log) => tasks[1] = log[j].after
                     /\ j < Len(log) =>
                          /\ log[j + 1].act = "wake"
                          /\ log[j + 1].after = Awaiting(k + 1)
                ELSE /\ log[j].after = Result("false")
                     /\ j = Len(log)

TransientRetriedWitness ==
    /\ Len(log) = 5
    /\ log[2].o = Timeout /\ log[2].after.wait = PauseSeconds
    /\ log[4].o = ClientError /\ log[4].before.attempt = 1
    /\ log[4].after.wait = PauseSeconds
    /\ log[5].after = Awaiting(2)
    /\ requests = 3

\* C6: a call sends at most max_retries requests and, once it is over, has
\* sent at least one; every response, 429 or transient, uses one request of
\* the same budget; when max_retries attempts all ended in 429, timeout or
\* transport error the call returns False (after its last backoff, if any).
RetryableOutcome(o) ==
    o.kind \in {"timeout", "client_error"} \/ (o.kind = "response" /\ o.status = 429)

RetryBudget ==
    /\ requests <= max_retries
    /\ requests = Len(Responses) + (IF tasks[1].pc = "await" THEN 1 ELSE 0)
    /\ Settled(tasks[1]) => requests >= 1
    /\ (/\ Len(Received) = max_retries
        /\ \A j \in 1..Len(Received) : RetryableOutcome(Received[j]))
       => /\ tasks[1].pc \in {"backoff", "false"}
          /\ Settled(tasks[1]) => tasks[1] = Result("false") /\ returned_false = 1

RetryBudgetWitness ==
    /\ Received = << Resp(429, "text"), Timeout, ClientError >>
    /\ max_retries = 3
    /\ requests = 3
    /\ tasks[1].pc = "false"

\* C7: a response with status 200 or 201 ends the call with True in the same
\* step, with no request after it, and a call returns True only on such a
\* response.
SuccessIsImmediate ==
    /\ \A j \in Steps :
         Is2xx(j) => log[j].after = Result("true") /\ j = Len(log)
    /\ tasks[1].pc = "true" => Len(log) > 0 /\ Is2xx(Len(log))


\* ======================================================================
\* Properties of a whole run, checked under Spec.
PendingCount == Cardinality({k \in 1..Len(tasks) : Pending(tasks[k])})
YieldedBefore(f, p) == Cardinality({k \in 1..p : AnyValue(f[k])})
GoodBefore(f, p) == Cardinality({k \in 1..p : AnyValue(f[k]) /\ ~f[k].bad})
BadBefore(f, p) == Cardinality({k \in 1..p : AnyValue(f[k]) /\ f[k].bad})
Summarized == summary # NoSummary

\* C1: in live mode the submissions created and not yet settled never number
\* more than batch_size.
ConcurrencyCeiling == ~dry_run => PendingCount <= batch_size

\* C2: when a live run has logged its summary, succeeded + failed is the number
\* of records the reader yielded, succeeded is the number of submissions that
\* returned True and failed is the number that returned False plus the rows
\* whose transformation raised: in every interleaving of the submissions.
CountsExact ==
    (Summarized /\ ~dry_run) =>
        /\ summary.migrated + summary.failed = YieldedBefore(file, Len(file))
        /\ summary.total = YieldedBefore(file, Len(file))
        /\ summary.migrated = returned_true
        /\ summary.failed = returned_false + BadBefore(file, Len(file))
        /\ returned_true + returned_false = created

CountsExactWitness ==
    /\ Summarized /\ ~dry_run
    /\ batch_size = 2
    /\ file = << DataRow, DataRow, BadRow >>
    /\ summary.migrated = 1 /\ summary.failed = 2
    /\ returned_false = 1
    /\ requests > 3

\* C8: an error raised while transforming the row in hand adds one to
\* failed_count, leaves migrated_count and the tasks alone and sends the loop
\* to the next row; and once the reader is at end of file every row it yielded
\* was transformed and, in live mode, every row transformed without error was
\* submitted.
RowErrorIsolated ==
    /\ [][(pc = "row" /\ cur.bad) =>
            /\ failed_count' = failed_count + 1
            /\ migrated_count' = migrated_count
            /\ tasks' = tasks
            /\ pc' = "read"]_vars
    /\ [](pc \in {"drain", "summary"} =>
            /\ transformed = YieldedBefore(file, Len(file))
            /\ ~dry_run => created = GoodBefore(file, Len(file)))

RowErrorIsolatedWitness ==
    /\ pc = "summary"
    /\ ~dry_run
    /\ file = << BadRow, DataRow, DataRow >>
    /\ failed_count = 1 /\ migrated_count = 2
    /\ transformed = 3 /\ created = 2

\* C9: in preview mode no submission is created and no request is sent, and
\* migrated_count is the number of rows processed so far whose transformation
\* did not raise.
PreviewNeverSubmits ==
    dry_run =>
        /\ tasks = << >> /\ created = 0 /\ requests = 0
        /\ migrated_count = GoodBefore(file, IF pc = "row" THEN pos - 1 ELSE pos)
        /\ Summarized => summary.migrated = GoodBefore(file, Len(file))

PreviewNeverSubmitsWitness ==
    /\ dry_run /\ ~has_token
    /\ pc = "exited"
    /\ file = << DataRow, BadRow, DataRow >>
    /\ summary.migrated = 2 /\ summary.failed = 1
    /\ requests = 0

\* C10: when the path names no regular file, or no token is set outside
\* preview mode, the run goes from its setup checks straight to its error
\* exit: no row is read or transformed, no submission is created, no request
\* is sent, no summary is logged.
SetupErrorStopsRun ==
    (path_kind # "file" \/ (~has_token /\ ~dry_run)) =>
        /\ pc \in {"main", "validate", "returned", "exited"}
        /\ pos = 0 /\ i = 0 /\ transformed = 0
        /\ tasks = << >> /\ created = 0 /\ requests = 0
        /\ ~Summarized /\ ~success
        /\ pc = "exited" => exit_code = 1

SetupErrorStopsRunWitness ==
    /\ pc = "exited"
    /\ path_kind = "dir" /\ has_token
    /\ Len(file) > 0
    /\ exit_code = 1


\* C11: the process exits with 0 exactly when the run logged its summary with
\* zero failed records; an exit with 0 means a valid path and credential, the
\* whole file consumed, no transform error, no submission that returned False,
\* raised or was cancelled.
PastSetup == path_kind = "file" /\ (has_token \/ dry_run)

ExitZeroIffNoFailure ==
    pc = "exited" =>
        /\ exit_code \in {0, 1}
        /\ exit_code = 0 <=> (Summarized /\ summary.failed = 0)
        /\ exit_code = 0 =>
             /\ PastSetup
             /\ pos = Len(file)
             /\ BadBefore(file, Len(file)) = 0
             /\ returned_false = 0
             /\ AllReturned(tasks)
             /\ summary.migrated = YieldedBefore(file, Len(file))

ExitZeroIffNoFailureWitness ==
    /\ pc = "exited"
    /\ exit_code = 0
    /\ ~dry_run
    /\ batch_size = 2
    /\ summary.migrated = 3
    /\ requests > 3

\* C12: a run that got past the setup checks has logged its summary when
\* process_migration has returned.
SummaryAlwaysEmitted ==
    (pc \in {"returned", "exited"} /\ PastSetup) => Summarized

\* C13: when the reader raised with submissions in flight and no submission
\* raised, the counters account for every submission created once
\* process_migration has returned: each one is in migrated_count or in
\* failed_count, next to the rows whose transformation raised.
InFlightCounted ==
    (/\ pc \in {"returned", "exited"}
     /\ PastSetup /\ ~dry_run
     /\ ~Summarized
     /\ ~SomeRaised(tasks))
    => migrated_count + failed_count = created + BadBefore(file, pos)

\* C14: when reader.read() raises, the rows yielded before it stay processed
\* and nothing else changes; the run then returns False without a summary and
\* exits with 1; a summary is computed only once the whole file was consumed.
NoSilentTruncation ==
    /\ [][(pc = "read" /\ pc' = "closing") =>
            UNCHANGED << pos, i, transformed, migrated_count, failed_count,
                         tasks, summary, success >>]_vars
    /\ [][(pc = "closing" /\ pc' # "closing") =>
            (pc' = "returned" /\ ~success' /\ summary' = NoSummary)]_vars
    /\ [](pc = "closing" => ~Summarized)
    /\ []((pc \in {"drain", "summary"} \/ Summarized) =>
            /\ pos = Len(file)
            /\ transformed = YieldedBefore(file, Len(file)))
    /\ []((pc = "exited" /\ ~Summarized) => (exit_code = 1 /\ ~success))

NoSilentTruncationWitness ==
    /\ pc = "exited"
    /\ file = << DataRow, DataRow, DataRow >>
    /\ ~dry_run /\ has_token /\ path_kind = "file"
    /\ batch_size = 1
    /\ i = 2 /\ pos = 2
    /\ migrated_count = 2 /\ returned_true = 2
    /\ ~Summarized
    /\ exit_code = 1

\* C15: a run goes through Idle, Validating, Streaming, Draining, Summarizing,
\* Done in this order (a drain with no submission left may be skipped); the
\* only other step is from Idle or Validating to Done with an error; rows are
\* read only after validation, and the summary is computed only when every
\* submission has settled.
Phase(p) ==
    CASE p = "main" -> 0
      [] p \in {"validate", "count"} -> 1
      [] p \in {"read", "row", "gather"} -> 2
      [] p = "drain" -> 3
      [] p = "summary" -> 4
      [] OTHER -> 5

PhaseOrder ==
    /\ [][\/ Phase(pc') = Phase(pc)
          \/ Phase(pc') = Phase(pc) + 1
          \/ Phase(pc) = 2 /\ Phase(pc') = 4 /\ tasks = << >>
          \/ Phase(pc) \in {0, 1} /\ Phase(pc') = 5 /\ ~success' /\ ~Summarized']_vars
    /\ []((pos > 0 \/ i > 0) => (Phase(pc) >= 2 /\ path_kind = "file"))
    /\ []((pc = "summary" \/ Summarized) => PendingCount = 0)


\* ======================================================================
\* CsvReader on its own: count_rows(), then list(read()), on every small file
\* whose cells are empty, whitespace-only or text.
\* ======================================================================
Cells == {"", " ", "x"}
ReaderRows == {[vals |-> << a, b >>, bad |-> FALSE] : a \in Cells, b \in Cells}

\* The variables the reader and the transformer do not touch.
NoRun ==
    /\ has_token = TRUE
    /\ dry_run = TRUE
    /\ batch_size = 1
    /\ max_retries = DefaultMaxRetries
    /\ i = 0
    /\ migrated_count = 0
    /\ failed_count = 0
    /\ tasks = << >>
    /\ summary = NoSummary
    /\ success = FALSE
    /\ exit_code = -1
    /\ requests = 0
    /\ created = 0
    /\ transformed = 0
    /\ returned_true = 0
    /\ returned_false = 0

NoRunUnchanged ==
    UNCHANGED << inputs, i, migrated_count, failed_count, tasks, summary,
                 success, exit_code, requests, created, transformed,
                 returned_true, returned_false >>

InitReader ==
    /\ pc = "unit_count"
    /\ path_kind \in {"file", "missing"}
    /\ file \in SeqsUpTo(ReaderRows, MaxRows)
    /\ pos = 0
    /\ cur = NoRow
    /\ total_rows = 0
    /\ log = << >>
    /\ out = << >>
    /\ NoRun

\* reader.count_rows(): the scan fails when the file cannot be opened, and it
\* may fail while reading; `log` keeps whether it did.
ReaderCount ==
    /\ pc = "unit_count"
    /\ \E scan_ok \in (IF path_kind = "file" THEN BOOLEAN ELSE {FALSE}) :
         /\ total_rows' = count_rows(file, scan_ok)
         /\ log' = << [act |-> "count_rows", ok |-> scan_ok] >>
    /\ pc' = "unit_read"
    /\ NoRunUnchanged
    /\ UNCHANGED << pos, cur, out >>

\* next(reader.read()) yields a row.
ReaderYield ==
    /\ pc = "unit_read"
    /\ path_kind = "file"
    /\ NextYield(file, pos) # 0
    /\ pos' = NextYield(file, pos)
    /\ out' = Append(out, file[pos'])
    /\ NoRunUnchanged
    /\ UNCHANGED << pc, cur, total_rows, log >>

\* next(reader.read()) reaches the end of the file.
ReaderEnd ==
    /\ pc = "unit_read"
    /\ path_kind = "file"
    /\ NextYield(file, pos) = 0
    /\ pos' = Len(file)
    /\ pc' = "unit_done"
    /\ NoRunUnchanged
    /\ UNCHANGED << cur, total_rows, log, out >>

\* open() or the csv iteration raises: read() logs the error and re-raises.
ReaderRaises ==
    /\ pc = "unit_read"
    /\ pc' = "unit_raised"
    /\ NoRunUnchanged
    /\ UNCHANGED << pos, cur, total_rows, log, out >>

NextReader ==
    \/ ReaderCount
    \/ ReaderYield
    \/ ReaderEnd
    \/ ReaderRaises

SpecReader == InitReader /\ [][NextReader]_vars

\* ---------------------------------------------------------------- C16, C17
\* A value that is empty once trimmed.
BlankCell(v) == v \in {"", " "}
BlankAfterTrim(row) == \A k \in 1..Len(row.vals) : BlankCell(row.vals[k])
NonBlankRows(f) == SelectSeq(f, LAMBDA r : ~BlankAfterTrim(r))

\* C16: read() yields the records in file order and skips exactly the rows in
\* which every value is empty or whitespace-only after trimming: when the
\* whole file was read, the records yielded are the file's rows that have a
\* value left after trimming, in file order.
ReadSkipsBlankRows ==
    pc = "unit_done" => out = NonBlankRows(file)

\* C17: count_rows() returns the number of rows with at least one value that
\* is non-empty after trimming, which is the number of records read() yields,
\* and it returns 0 instead of raising when the scan fails.
CountMatchesRead ==
    pc \in {"unit_read", "unit_done", "unit_raised"} =>
        /\ log[1].ok => total_rows = Len(NonBlankRows(file))
        /\ (log[1].ok /\ pc = "unit_done") => total_rows = Len(out)
        /\ ~log[1].ok => total_rows = 0


\* ======================================================================
\* TestCaseTransformer on its own (src/core/transformer.py).  A Python str is
\* the sequence of its characters; a dict is a function on its keys.
\* ======================================================================
MaxSegments == 3
MaxPieces == 3

PROJECT_ID == 135

\* None, as row_data.get returns it for a column the row does not have.
None == << "None" >>

\* `not value`
Falsy(value) == value = None \/ value = << >>

Whitespace == {" ", "\n", "\t"}

RECURSIVE lstrip(_)
lstrip(s) == IF s # << >> /\ Head(s) \in Whitespace THEN lstrip(Tail(s)) ELSE s

RECURSIVE rstrip(_)
rstrip(s) ==
    IF s # << >> /\ s[Len(s)] \in Whitespace
    THEN rstrip(SubSeq(s, 1, Len(s) - 1))
    ELSE s

\* str.strip()
strip(s) == rstrip(lstrip(s))

LowerCase == << "a", "b", "c", "d", "e", "f", "g", "h", "i", "j", "k", "l", "m", "n", "o", "p", "q", "r", "s", "t", "u", "v", "w", "x", "y", "z" >>
UpperCase == << "A", "B", "C", "D", "E", "F", "G", "H", "I", "J", "K", "L", "M", "N", "O", "P", "Q", "R", "S", "T", "U", "V", "W", "X", "Y", "Z" >>

upper_char(c) ==
    IF \E k \in 1..Len(LowerCase) : LowerCase[k] = c
    THEN UpperCase[CHOOSE k \in 1..Len(LowerCase) : LowerCase[k] = c]
    ELSE c

\* str.upper()
upper(s) == [k \in 1..Len(s) |-> upper_char(s[k])]

StartsWith(s, p) == Len(s) >= Len(p) /\ SubSeq(s, 1, Len(p)) = p

\* str.find, counted from 1: the first index where p occurs in s, 0 if none.
Find(s, p) ==
    LET at == {k \in 1..(Len(s) - Len(p) + 1) : SubSeq(s, k, k + Len(p) - 1) = p}
    IN  IF at = {} THEN 0 ELSE CHOOSE k \in at : \A j \in at : k <= j

\* `p in s`
Contains(s, p) == Find(s, p) # 0

\* A split at the last occurrence of sep.
split_last(s, sep) ==
    LET at == {k \in 1..(Len(s) - Len(sep) + 1) : SubSeq(s, k, k + Len(sep) - 1) = sep}
        last == CHOOSE k \in at : \A j \in at : k >= j
    IN  << SubSeq(s, 1, last - 1), SubSeq(s, last + Len(sep), Len(s)) >>

\* s.split(sep, 1), for an s that contains sep
split_once(s, sep) ==
    << SubSeq(s, 1, Find(s, sep) - 1),
       SubSeq(s, Find(s, sep) + Len(sep), Len(s)) >>

\* re.split of s on an alternation of literal separators `seps`: scanning from
\* the left, the first alternative that matches at a position ends the piece.
RECURSIVE re_split_from(_, _, _)
re_split_from(seps, s, piece) ==
    IF s = << >> THEN << piece >>
    ELSE LET m == {k \in 1..Len(seps) : StartsWith(s, seps[k])}
         IN  IF m # {}
             THEN LET k == CHOOSE x \in m : \A y \in m : x <= y
                  IN  << piece >>
                      \o re_split_from(seps, SubSeq(s, Len(seps[k]) + 1, Len(s)), << >>)
             ELSE re_split_from(seps, Tail(s), Append(piece, Head(s)))

re_split(seps, s) == re_split_from(seps, s, << >>)

\* src/config.py
FIELD_MAPPING ==
    << << "ID", "externalId" >>, << "Title", "name" >>,
       << "Priority", "priority" >>, << "Tags", "tags" >>,
       << "Preconditions", "description_preconditions" >>,
       << "Steps", "description_steps" >> >>
STEP_SEPARATOR == << " ", "|", " " >>
ACTION_EXPECTED_SEPARATOR == << ";", " ", "E", "x", "p", "e", "c", "t", "e", "d", ":", " " >>
NewLine == << "\n" >>

\* One stripped, non-empty raw step.
step_of(raw_step) ==
    IF Contains(raw_step, ACTION_EXPECTED_SEPARATOR)
    THEN LET parts == split_once(raw_step, ACTION_EXPECTED_SEPARATOR)
         IN  [name |-> strip(parts[1]), expectedResult |-> strip(parts[2])]
    ELSE [name |-> raw_step, expectedResult |-> << >>]

\* The for loop of parse_steps.
RECURSIVE steps_from(_)
steps_from(raw_steps) ==
    IF raw_steps = << >> THEN << >>
    ELSE (IF strip(Head(raw_steps)) = << >>
          THEN << >>
          ELSE << step_of(strip(Head(raw_steps))) >>)
         \o steps_from(Tail(raw_steps))

parse_steps(steps_str) ==
    IF Falsy(steps_str) \/ strip(steps_str) = << >>
    THEN << >>
    ELSE steps_from(re_split(<< STEP_SEPARATOR, NewLine >>, steps_str))

\* Tags split on commas only.
TagSeparatorsCommaOnly == << << "," >> >>

\* '[,;]'
TagSeparators == << << "," >>, << ";" >> >>

\* [{"name": tag} for tag in (t.strip() for t in re.split('[,;]', value) if t.strip())]
tag_objects(value) ==
    LET kept == SelectSeq(re_split(TagSeparators, value), LAMBDA t : strip(t) # << >>)
    IN  [k \in 1..Len(kept) |-> [name |-> strip(kept[k])]]

\* payload[key] = value
Put(payload, key, value) ==
    [x \in DOMAIN payload \cup {key} |-> IF x = key THEN value ELSE payload[x]]

\* row_data.get(csv_key)
Get(row_data, csv_key) == IF csv_key \in DOMAIN row_data THEN row_data[csv_key] ELSE None

\* A header without the Markdown emphasis.
PreconditionsHeaderPlain ==
    << "P", "r", "e", "c", "o", "n", "d", "i", "t", "i", "o", "n", "s", ":", "\n" >>

\* f"**Preconditions:**\n"
PreconditionsHeader == << "*", "*", "P", "r", "e", "c", "o", "n", "d", "i", "t", "i", "o", "n", "s", ":", "*", "*", "\n" >>

\* The branches of transform for one mapped field with a stripped value.
ApplyField(payload, api_key, value) ==
    CASE api_key = "description_preconditions" ->
            Put(payload, "description",
                payload["description"] \o PreconditionsHeader \o value \o << "\n", "\n" >>)
      [] api_key = "description_steps" ->
            Put(Put(payload, "steps", parse_steps(value)),
                "scenario", [steps |-> parse_steps(value)])
      [] api_key = "tags" -> Put(payload, "tags", tag_objects(value))
      [] api_key = "priority" -> Put(payload, api_key, upper(value))
      [] OTHER -> Put(payload, api_key, value)

InitialPayload(project_id) ==
    [projectId |-> project_id, steps |-> << >>, tags |-> << >>, description |-> << >>]

\* The for loop of transform, from the k-th entry of FIELD_MAPPING on.
RECURSIVE transform_from(_, _, _)
transform_from(payload, row_data, k) ==
    IF k > Len(FIELD_MAPPING) THEN payload
    ELSE LET value == Get(row_data, FIELD_MAPPING[k][1])
         IN  transform_from(
                 IF Falsy(value) \/ strip(value) = << >>
                 THEN payload
                 ELSE ApplyField(payload, FIELD_MAPPING[k][2], strip(value)),
                 row_data, k + 1)

transform(row_data, project_id) == transform_from(InitialPayload(project_id), row_data, 1)

\* ------------------------------------------------------ the rows transformed
Fields == {"ID", "Title", "Priority", "Tags", "Preconditions", "Steps"}

\* A value with text in it for each column, some with surrounding whitespace.
Sample(f) ==
    CASE f = "ID" -> << "T", "C", "-", "0", "1" >>
      [] f = "Title" -> << " ", "T", "e", "s", "t", " ", "L", "o", "g", "i", "n" >>
      [] f = "Priority" -> << "H", "i", "g", "h", " " >>
      [] f = "Tags" -> << "s", "m", "o", "k", "e", ",", " ", "a", "u", "t", "h" >>
      [] f = "Preconditions" -> << "U", "s", "e", "r", " ", "e", "x", "i", "s", "t", "s", "\n" >>
      [] OTHER -> << "L", "o", "g", "i", "n", ";", " ", "E", "x", "p", "e", "c", "t", "e", "d", ":", " ", "S", "u", "c", "c", "e", "s", "s" >>

\* Each column is absent (0), empty (1), whitespace-only (2) or has text (3).
Draw(f, n) ==
    CASE n = 1 -> << >>
      [] n = 2 -> << " " >>
      [] OTHER -> Sample(f)

RowFrom(c) == [f \in {g \in Fields : c[g] # 0} |-> Draw(f, c[f])]
FieldRows == {RowFrom(c) : c \in [Fields -> 0..3]}
BaseRow == RowFrom([f \in Fields |-> 3])

\* A Tags value is pieces joined by commas and semicolons; each piece is
\* recorded with the tag it holds once trimmed (empty if it holds none) and with
\* the separator written before it.
Piece(text, name) == [kind |-> "piece", text |-> text, name |-> name, sep |-> << >>]
Pieces ==
    { Piece(<< >>, << >>), Piece(<< " " >>, << >>), Piece(<< "a" >>, << "a" >>),
      Piece(<< " ", "b", " " >>, << "b" >>), Piece(<< "a", " ", "b", " " >>, << "a", " ", "b" >>), Piece(<< " ", " ", "a" >>, << "a" >>) }

\* A Steps value is well-formed segments joined by " | " or newlines; each
\* segment is recorded with the action and the expected result written in it
\* and with the separator written before it.  A well-formed segment is an
\* action, or an action, "; Expected: " and an expected result; action and
\* expected result are non-empty once trimmed, the action holds no
\* "; Expected: ", and the segment holds neither " | " nor a newline.
Segment(text, name, expected) ==
    [kind |-> "segment", text |-> text, name |-> name, expectedResult |-> expected,
     sep |-> << >>]
Segments ==
    { Segment(<< "a" >>, << "a" >>, << >>),
      Segment(<< " ", "b", " " >>, << "b" >>, << >>),
      Segment(<< "a", "|", "b" >>, << "a", "|", "b" >>, << >>),
      Segment(<< "a", " ", "b", ";", " ", "E", "x", "p", "e", "c", "t", "e", "d", ":", " ", "b" >>, << "a", " ", "b" >>, << "b" >>),
      Segment(<< " ", "a", " ", ";", " ", "E", "x", "p", "e", "c", "t", "e", "d", ":", " ", " ", "b", " " >>, << "a" >>, << "b" >>),
      Segment(<< "a", ";", " ", "E", "x", "p", "e", "c", "t", "e", "d", ":", " ", "b", ";", " ", "E", "x", "p", "e", "c", "t", "e", "d", ":", " ", "a" >>, << "a" >>, << "b", ";", " ", "E", "x", "p", "e", "c", "t", "e", "d", ":", " ", "a" >>) }

\* The parts joined: no separator before the first, one before each other.
Joined(parts, seps, n) ==
    { s \in SeqsUpTo({[p EXCEPT !.sep = j] : p \in parts, j \in seps \cup {<< >>}}, n) :
        /\ s # << >>
        /\ \A k \in 1..Len(s) : (s[k].sep = << >>) <=> (k = 1) }

RECURSIVE Render(_)
Render(parts) ==
    IF parts = << >> THEN << >>
    ELSE Head(parts).sep \o Head(parts).text \o Render(Tail(parts))

InitTransform ==
    /\ pc = "unit_transform"
    /\ path_kind = "file"
    /\ file = << >>
    /\ pos = 0
    /\ total_rows = 0
    /\ out = << >>
    /\ NoRun
    /\ \/ log = << >> /\ cur \in FieldRows
       \/ /\ log \in Joined(Pieces, {<< "," >>, << ";" >>}, MaxPieces)
          /\ cur = Put(BaseRow, "Tags", Render(log))
       \/ /\ log \in Joined(Segments, {STEP_SEPARATOR, NewLine}, MaxSegments)
          /\ cur = Put(BaseRow, "Steps", Render(log))

\* transformer.transform(row)
CallTransform ==
    /\ pc = "unit_transform"
    /\ out' = transform(cur, PROJECT_ID)
    /\ pc' = "unit_transformed"
    /\ NoRunUnchanged
    /\ UNCHANGED << pos, cur, total_rows, log >>

\* transformer.parse_steps(row["Steps"])
CallParseSteps ==
    /\ pc = "unit_transform"
    /\ "Steps" \in DOMAIN cur
    /\ out' = parse_steps(cur["Steps"])
    /\ pc' = "unit_parsed"
    /\ NoRunUnchanged
    /\ UNCHANGED << pos, cur, total_rows, log >>

NextTransform ==
    \/ CallTransform
    \/ CallParseSteps

SpecTransform == InitTransform /\ [][NextTransform]_vars

\* ----------------------------------------------------------- C18, C19, C20
\* The payload key each column is mapped to.
KeyOf(f) ==
    CASE f = "ID" -> "externalId"
      [] f = "Title" -> "name"
      [] f = "Priority" -> "priority"
      [] f = "Tags" -> "tags"
      [] f = "Preconditions" -> "description"
      [] OTHER -> "steps"

\* The column is absent from the row, or empty or whitespace-only.
BlankField(row, f) ==
    f \notin DOMAIN row \/ \A k \in 1..Len(row[f]) : row[f][k] \in {" ", "\n", "\t"}

StringKeys == {"externalId", "name", "priority", "description"}

\* C18: the payload transform returns has no key that comes from an absent or
\* blank source field and no key whose value is an empty string; a blank
\* Priority yields no priority key.
NoBlankKeys ==
    pc = "unit_transformed" =>
        /\ \A f \in Fields : BlankField(cur, f) => KeyOf(f) \notin DOMAIN out
        /\ \A k \in DOMAIN out \cap StringKeys : out[k] # << >>
        /\ BlankField(cur, "Priority") => "priority" \notin DOMAIN out

IsSegments == log # << >> /\ log[1].kind = "segment"

\* C19: for a steps string of N well-formed segments joined by " | " or by
\* newlines, parse_steps returns exactly N steps, in the order of the segments,
\* each with a non-empty name: the trimmed action of its segment, with the
\* trimmed text after the first "; Expected: " as expectedResult, or an empty
\* expectedResult for a segment without "; Expected: ".
ParseStepsWellFormed ==
    (pc = "unit_parsed" /\ IsSegments) =>
        /\ Len(out) = Len(log)
        /\ \A j \in 1..Len(log) :
             /\ out[j].name = log[j].name
             /\ out[j].name # << >>
             /\ out[j].expectedResult = log[j].expectedResult

ParseStepsWellFormedWitness ==
    /\ pc = "unit_parsed"
    /\ IsSegments
    /\ Len(log) = 3
    /\ log[1].text = << "a", ";", " ", "E", "x", "p", "e", "c", "t", "e", "d", ":", " ", "b", ";", " ", "E", "x", "p", "e", "c", "t", "e", "d", ":", " ", "a" >>
    /\ log[2].sep = NewLine
    /\ log[2].expectedResult = << "b" >>
    /\ log[3].sep = STEP_SEPARATOR
    /\ log[3].expectedResult = << >>
    /\ Len(out) = 3
    /\ out[1] = [name |-> << "a" >>, expectedResult |-> << "b", ";", " ", "E", "x", "p", "e", "c", "t", "e", "d", ":", " ", "a" >>]
    /\ out[3].expectedResult = << >>

IsPieces == log # << >> /\ log[1].kind = "piece"
NamedPieces == SelectSeq(log, LAMBDA p : p.name # << >>)

\* C20: for a Tags value, transform sets payload tags to the pieces between
\* commas and semicolons, trimmed, without the empty ones, in the original
\* order and with duplicates kept, each wrapped as {name: tag}.
TagsSplitTrimmed ==
    (pc = "unit_transformed" /\ IsPieces) =>
        /\ Len(out["tags"]) = Len(NamedPieces)
        /\ \A k \in 1..Len(NamedPieces) : out["tags"][k] = [name |-> NamedPieces[k].name]

TagsSplitTrimmedWitness ==
    /\ pc = "unit_transformed"
    /\ IsPieces
    /\ Len(log) = 3
    /\ log[1].name = << "a" >>
    /\ log[2].name = << >> /\ log[2].sep = << ";" >>
    /\ log[3].name = << "a" >> /\ log[3].sep = << "," >> /\ log[3].text # log[3].name
    /\ out["tags"] = << [name |-> << "a" >>], [name |-> << "a" >>] >>

\* ---------------------------------------------------------------- C21, C22
\* C21: the payload transform returns carries the project identifier as a
\* nested object: payload['project']['id'] is the project_id the transformer
\* was constructed with.
ProjectNested ==
    pc = "unit_transformed" =>
        /\ "project" \in DOMAIN out
        /\ out["project"]["id"] = PROJECT_ID

\* p occurs in s
Occurs(s, p) == \E k \in 1..(Len(s) - Len(p) + 1) : SubSeq(s, k, k + Len(p) - 1) = p

\* v without its leading and trailing whitespace, for a v that is not blank:
\* the part of v that neither starts nor ends with whitespace and has nothing
\* but whitespace before and after it.
TrimBounds(v) ==
    CHOOSE ab \in (1..Len(v)) \X (1..Len(v)) :
        /\ ab[1] <= ab[2]
        /\ v[ab[1]] \notin {" ", "\n", "\t"}
        /\ v[ab[2]] \notin {" ", "\n", "\t"}
        /\ \A k \in 1..Len(v) : (k < ab[1] \/ k > ab[2]) => v[k] \in {" ", "\n", "\t"}
Trimmed(v) == SubSeq(v, TrimBounds(v)[1], TrimBounds(v)[2])

HasPreconditions == pc = "unit_transformed" /\ ~BlankField(cur, "Preconditions")

ZeroRecordsRate ==
    (Summarized /\ YieldedBefore(file, Len(file)) = 0) =>
        /\ summary = [total |-> 0, migrated |-> 0, failed |-> 0, rate |-> 0]
        /\ success
        /\ pc = "exited" => exit_code = 0

ZeroRecordsRateWitness ==
    /\ pc = "exited"
    /\ file = << EmptyRow, EmptyRow >>
    /\ ~dry_run
    /\ total_rows = 0
    /\ summary.rate = 0
    /\ exit_code = 0

InFlight(tk) == tk.pc \in {"await", "backoff", "pause"}

\* C24: in live mode, while the orchestrator reads or handles a row no
\* submission is in flight and fewer than batch_size submissions wait to be
\* started (a full batch is settled before the next row is admitted), and the
\* summary is computed only when every submission has settled.
BatchAdmission ==
    ~dry_run =>
        /\ pc \in {"read", "row"} =>
             /\ \A k \in 1..Len(tasks) : ~InFlight(tasks[k])
             /\ Cardinality({k \in 1..Len(tasks) : tasks[k].pc = "new"}) < batch_size
        /\ (pc = "summary" \/ Summarized) => PendingCount = 0

\* ---------------------------------------------------------------- C25, C26
\* One call of migrate_test_case on an event loop that keeps running it: every
\* request answers, times out or fails, and every sleep ends.
FairSpecClient == SpecClient /\ WF_vars(NextClient)

\* C25: every call of migrate_test_case returns an outcome, True or False,
\* after finitely many steps, for every max_retries and every sequence of
\* answers, timeouts and transport errors.
CallReturns == <>(tasks[1].pc \in {"true", "false"})

\* C26: migrate_test_case never waits after its last permitted attempt: a
\* backoff or pause begins only when another attempt is left, and when it ends
\* the payload is requested again.
NoWaitAfterLastAttempt ==
    \A j \in Steps :
        /\ log[j].after.pc \in {"backoff", "pause"} =>
             log[j].before.attempt + 1 < max_retries
        /\ log[j].act = "wake" => log[j].after.pc = "await"
====
